---- MODULE Spec2Model ----
(***************************************************************************)
(* A model of db_pandas.Sql (src/db_pandas/__init__.py): one session with  *)
(* its pooled engine, its reflected MetaData (the schema catalog) and the  *)
(* database behind it, and the module function _sql_dtypes.                *)
(*                                                                         *)
(* The session is one the constructor builds with schema=None, with or     *)
(* without skip_reflect.  The database is a typed, transactional SQL store.*)
(* SQLAlchemy and pandas are modelled by what the calls made in the source *)
(* do (SQLAlchemy 1.x, Python 3).                                          *)
(***************************************************************************)
EXTENDS Integers, Sequences, FiniteSets, TLC

VARIABLES
    db,          \* the database: table name -> [exists, cols, rows]
    catalog,     \* self.metadata.tables: table name -> [exists, cols]
    has_metadata, \* whether self.metadata has been assigned
    skip_reflect, \* self.skip_reflect
    checkedOut,  \* connections taken from self.engine's pool and not given back
    last,        \* the call that ended last: its arguments, its outcome, its trace
    gen,         \* the generator the last call of lazy_query returned
    sql,         \* one call of the constructor: its arguments, the object it builds
    probe,       \* one call of _sql_dtypes: the sample value, char_limit, the result
    server,      \* the tables of each schema of each database the server has
    calls        \* two calls of write_table under way: their sessions, where each stands

vars == <<db, catalog, has_metadata, skip_reflect, checkedOut, last, gen, sql, probe, server,
          calls>>

----------------------------------------------------------------------------
(* Bounds of the model. *)

MaxBatch == 2        \* rows in one input of insert / write_table
MaxRows == 2         \* rows a table may hold (inserts beyond it are not explored)
MaxCheckedOut == 1   \* connections that may be outstanding at once in a run
MaxCharLimit == 4    \* explicit char_limit arguments tried: 1..MaxCharLimit
WriteCharLimit == 10 \* the explicit char_limit write_table is called with
MaxPools == 3        \* engines a session is followed through

(* char_limit=255, the default of _sql_dtypes and of write_table. *)
DefaultCharLimit == 255

----------------------------------------------------------------------------
(* Python values.  A value is named by its literal; TypeOf gives its class. *)

TypeOf(v) ==
    CASE v \in {"True", "False"} -> "bool"
      [] v \in {"0", "1", "2", "3"} -> "int"
      [] v \in {"1.0", "2.0", "3.0", "1.5", "nan"} -> "float"
      [] v \in {"'a'", "'b'", "'c'", "''", "'1'", "'2'", "'3'", "'1.0'", "'true'", "'false'"} -> "str"
      [] v = "date(2020,1,1)" -> "date"
      [] v = "datetime(2020,1,1,12,0)" -> "datetime"
      [] v = "None" -> "NoneType"
      [] v = "numpy.int64(1)" -> "numpy.int64"
      [] v = "numpy.float64(1.5)" -> "numpy.float64"
      [] v = "numpy.bool_(True)" -> "numpy.bool_"
      [] v = "Timestamp('2020-01-01 12:00')" -> "Timestamp"
      [] v = "b'a'" -> "bytes"

(* The classes a class derives from, itself included (Python 3: bool is a  *)
(* subclass of int, datetime of date, numpy.float64 of float, pandas'      *)
(* Timestamp of datetime; numpy.int64 and numpy.bool_ derive from neither  *)
(* int nor bool).                                                          *)
Bases(cls) ==
    CASE cls = "bool" -> {"bool", "int"}
      [] cls = "datetime" -> {"datetime", "date"}
      [] cls = "numpy.float64" -> {"numpy.float64", "float"}
      [] cls = "Timestamp" -> {"Timestamp", "datetime", "date"}
      [] OTHER -> {cls}

isinstance(cls, base) == base \in Bases(cls)

(* A sqlalchemy type: its class and, for String, its length. *)
SqlType(tag, length) == [tag |-> tag, length |-> length]
BigInteger == SqlType("BigInteger", 0)
Integer == SqlType("Integer", 0)
Float == SqlType("Float", 0)
Boolean == SqlType("Boolean", 0)
Date == SqlType("Date", 0)
DateTime == SqlType("DateTime", 0)
Text == SqlType("Text", 0)
String(n) == SqlType("String", n)

(* _sql_dtypes(value, char_limit), on the class of value: the isinstance    *)
(* tests in the order of the source, the first that holds decides.         *)
_sql_dtypes(cls, char_limit) ==
    IF isinstance(cls, "int") THEN BigInteger
    ELSE IF isinstance(cls, "float") THEN Float
    ELSE IF isinstance(cls, "bool") THEN Boolean
    ELSE IF isinstance(cls, "str") THEN String(char_limit)
    ELSE IF isinstance(cls, "datetime") THEN DateTime
    ELSE Text

(* _sql_dtypes of src/src/db_to_pandas.py, the module's earlier version    *)
(* (Python 2: long is a class of its own).                                 *)
_sql_dtypes_db_to_pandas(cls, char_limit) ==
    IF isinstance(cls, "int") THEN Integer
    ELSE IF isinstance(cls, "float") THEN Float
    ELSE IF isinstance(cls, "long") THEN BigInteger
    ELSE IF isinstance(cls, "bool") THEN Boolean
    ELSE IF isinstance(cls, "str") THEN String(char_limit)
    ELSE IF isinstance(cls, "date") THEN Date
    ELSE IF isinstance(cls, "datetime") THEN DateTime
    ELSE Text

----------------------------------------------------------------------------
(* Tabular data.  An input of insert / write_table, and a result handed    *)
(* back, is [py, cols, dtypes, rows]: py is "list" for a list of           *)
(* dictionaries that all have the keys cols, "DataFrame" for a pandas      *)
(* DataFrame with the column dtypes given, "None" for no value.            *)

TableNames == {"t1"}
ColNames == {"id"}
CellValues == {"1", "'a'", "None"}

NoValue == [py |-> "None", cols |-> <<>>, dtypes |-> <<>>, rows |-> <<>>]
ListOf(cols, rows) == [py |-> "list", cols |-> cols, dtypes |-> <<>>, rows |-> rows]

ColumnOf(data, j) == [i \in 1..Len(data.rows) |-> data.rows[i][j]]

(* The dtype pandas gives a column built from Python objects: bool when    *)
(* all are bools, int64 when all are ints, float64 when all are numbers or *)
(* None and one is a number, object otherwise.                             *)
ColumnDtype(vals) ==
    IF \A i \in DOMAIN vals : TypeOf(vals[i]) = "bool" THEN "bool"
    ELSE IF \A i \in DOMAIN vals : TypeOf(vals[i]) = "int" THEN "int64"
    ELSE IF /\ \A i \in DOMAIN vals : TypeOf(vals[i]) \in {"int", "float", "NoneType"}
            /\ \E i \in DOMAIN vals : TypeOf(vals[i]) \in {"int", "float"}
         THEN "float64"
    ELSE "object"

(* A value as a column of that dtype holds it: in a float64 column an int  *)
(* is a float and None is NaN.                                             *)
AsDtype(dtype, v) ==
    IF dtype = "float64"
    THEN CASE v = "1" -> "1.0" [] v = "None" -> "nan" [] OTHER -> v
    ELSE v

(* The class of data[col][i]: a numpy scalar for a numeric column, the     *)
(* Python object itself for an object column.                              *)
ScalarClass(dtype, v) ==
    CASE dtype = "bool" -> "numpy.bool_"
      [] dtype = "int64" -> "numpy.int64"
      [] dtype = "float64" -> "numpy.float64"
      [] OTHER -> TypeOf(v)

(* Sql.dict2df: pd.DataFrame(data).  An empty list has no keys, so it      *)
(* gives a DataFrame without columns.                                      *)
dict2df(data) ==
    IF data.rows = <<>>
    THEN [py |-> "DataFrame", cols |-> <<>>, dtypes |-> <<>>, rows |-> <<>>]
    ELSE LET dts == [j \in 1..Len(data.cols) |-> ColumnDtype(ColumnOf(data, j))]
         IN  [py |-> "DataFrame", cols |-> data.cols, dtypes |-> dts,
              rows |-> [i \in 1..Len(data.rows) |->
                          [j \in 1..Len(data.cols) |-> AsDtype(dts[j], data.rows[i][j])]]]

(* data.astype(object).where(pd.notnull(data), None): NaN becomes None.    *)
NotNullOrNone(df) ==
    [df EXCEPT !.dtypes = [j \in 1..Len(df.cols) |-> "object"],
               !.rows = [i \in 1..Len(df.rows) |->
                           [j \in 1..Len(df.cols) |->
                              IF df.rows[i][j] = "nan" THEN "None" ELSE df.rows[i][j]]]]

(* Sql.df2dict: df.to_dict('records').                                     *)
df2dict(df) == ListOf(df.cols, df.rows)

(* The inputs tried: the non-empty lists of at most MaxBatch dictionaries  *)
(* over one column, the DataFrames made of them, and the DataFrame with    *)
(* that column and no row.  write_table turns a list into its DataFrame    *)
(* first, so it is given the lists, not their DataFrames.                  *)
RowSeqs(n) == UNION {[1..k -> [1..1 -> CellValues]] : k \in 1..n}
Lists == {ListOf(<<c>>, rows) : c \in ColNames, rows \in RowSeqs(MaxBatch)}
EmptyFrames ==
    {[py |-> "DataFrame", cols |-> <<c>>, dtypes |-> <<"object">>, rows |-> <<>>] :
        c \in ColNames}
Frames == {dict2df(l) : l \in Lists} \cup EmptyFrames
Inputs == Lists \cup Frames

(* An input of three columns, an int, a str and a bool one, of at most     *)
(* MaxBatch rows; write_table is given it as well.                         *)
ThreeColumnRows ==
    <<(<<"1", "'a'", "True">>), (<<"2", "'b'", "False">>), (<<"3", "'c'", "True">>)>>
ThreeColumns ==
    ListOf(<<"id", "name", "active">>,
           SubSeq(ThreeColumnRows, 1, IF MaxBatch < 3 THEN MaxBatch ELSE 3))
WriteInputs == Lists \cup EmptyFrames \cup {ThreeColumns}

----------------------------------------------------------------------------
(* The database: typed tables with nullable columns.  A column takes NULL, *)
(* a text column takes any value, a numeric column takes numbers only.     *)

NoTable == [exists |-> FALSE, cols |-> <<>>, rows |-> <<>>]
NoEntry == [exists |-> FALSE, cols |-> <<>>]
ColumnDef(name, type) == [name |-> name, type |-> type]
NamesOf(cols) == {cols[j].name : j \in DOMAIN cols}

Accepts(type, v) ==
    \/ v = "None"
    \/ type.tag \in {"Text", "String"}
    \/ type.tag \in {"BigInteger", "Integer", "Float"} /\ TypeOf(v) \in {"int", "float"} /\ v # "nan"
    \/ type.tag = "Boolean" /\ TypeOf(v) = "bool"
    \/ type.tag \in {"Date", "DateTime"} /\ TypeOf(v) \in {"date", "datetime"}

(* The row a table with columns cols stores for one dictionary: a column   *)
(* the dictionary has no key for gets its default, NULL.                   *)
StoredRow(cols, keys, vals) ==
    [j \in 1..Len(cols) |->
        IF \E k \in DOMAIN keys : keys[k] = cols[j].name
        THEN vals[CHOOSE k \in DOMAIN keys : keys[k] = cols[j].name]
        ELSE "None"]

RowAccepted(cols, row) == \A j \in DOMAIN cols : Accepts(cols[j].type, row[j])

(* The value a column of the type holds for a value it has accepted: a     *)
(* text column holds the text of a number or a boolean, a floating column  *)
(* holds an integer as a float.                                            *)
Held(type, v) ==
    IF type.tag \in {"Text", "String"}
    THEN CASE v = "1" -> "'1'" [] v = "2" -> "'2'" [] v = "3" -> "'3'"
           [] v = "1.0" -> "'1.0'"
           [] v = "True" -> "'true'" [] v = "False" -> "'false'"
           [] OTHER -> v
    ELSE IF type.tag = "Float"
    THEN CASE v = "1" -> "1.0" [] v = "2" -> "2.0" [] v = "3" -> "3.0" [] OTHER -> v
    ELSE v

HeldRows(cols, rows) ==
    [i \in 1..Len(rows) |-> [j \in 1..Len(cols) |-> Held(cols[j].type, rows[i][j])]]

----------------------------------------------------------------------------
(* A method call is computed on a run record: the database, the catalog    *)
(* and the pool as the call has left them so far, the statements it has    *)
(* sent (stmts), the connections it has taken (conns), the exception it    *)
(* has raised (res, "ok" for none) and the value it returns (out).  via    *)
(* gives, for each statement sent, the connection it was sent on, counted  *)
(* in the order the call took them.                                        *)

Raise(r, exception) == [r EXCEPT !.res = exception]

(* self.engine.connect(), and a connection that the engine takes for one   *)
(* statement: one more connection is out of the pool.                      *)
connect(r) == [r EXCEPT !.checkedOut = @ + 1, !.conns = @ + 1]

(* conn.close(): the connection goes back to the pool.                     *)
close(r) == [r EXCEPT !.checkedOut = @ - 1]

(* A statement reaches the database.                                       *)
Sent(r, stmt) == [r EXCEPT !.stmts = Append(@, stmt), !.via = Append(@, r.conns)]

(* MetaData.reflect(bind=engine): loads every table of the database that   *)
(* the MetaData does not hold yet; a Table it holds is left as it is,      *)
(* whether or not the database still has it.                               *)
reflect(tables, database) ==
    [t \in TableNames |->
        IF tables[t].exists THEN tables[t]
        ELSE IF database[t].exists THEN [exists |-> TRUE, cols |-> database[t].cols]
        ELSE NoEntry]

(* The reflections the call has run so far.                                *)
Reflections(r) == Cardinality({k \in DOMAIN r.stmts : r.stmts[k] = "REFLECT"})

(* A _refresh that reports no failure of the reflection.                   *)
_refresh_quiet(r) ==
    IF r.skip_reflect THEN r
    ELSE IF r.reflect_fails = Reflections(r) + 1
    THEN close(Sent(connect(r), "REFLECT"))
    ELSE [close(Sent(connect(r), "REFLECT")) EXCEPT !.catalog = reflect(r.catalog, r.db)]

(* Sql._refresh: nothing when skip_reflect is set.  The reflection that    *)
(* r.reflect_fails numbers within the call (0 for none) fails, as it does  *)
(* when the server stops answering: its exception leaves _refresh, the     *)
(* MetaData is as it was.                                                  *)
_refresh(r) ==
    IF r.skip_reflect THEN r
    ELSE IF r.reflect_fails = Reflections(r) + 1
    THEN Raise(close(Sent(connect(r), "REFLECT")), "OperationalError")
    ELSE [close(Sent(connect(r), "REFLECT")) EXCEPT !.catalog = reflect(r.catalog, r.db)]

(* The evaluation of self.metadata: the attribute is missing when no       *)
(* reflection has assigned it.                                             *)
NoMetadata(r) == ~r.has_metadata

(* The rows conn.execute(ins, data) sends for the list data: one INSERT    *)
(* per dictionary; for an empty list SQLAlchemy runs the INSERT once with  *)
(* no parameters, which stores one row of column defaults.                 *)
RowsSent(cols, data) ==
    IF data.rows = <<>> THEN <<StoredRow(cols, <<>>, <<>>)>>
    ELSE [i \in 1..Len(data.rows) |-> StoredRow(cols, data.cols, data.rows[i])]

(* The number of rows the database takes before it rejects one.            *)
RECURSIVE TakenBeforeReject(_, _, _)
TakenBeforeReject(cols, rows, i) ==
    IF i > Len(rows) \/ ~RowAccepted(cols, rows[i]) THEN i - 1
    ELSE TakenBeforeReject(cols, rows, i + 1)

(* A connection without a transaction around the block: what the database  *)
(* took stays.                                                             *)
end_begin_autocommit(before, inside) == close(inside)

(* The end of the block `with self.engine.begin() as conn`: the work done  *)
(* inside is committed when the block ends normally and rolled back when   *)
(* it raises; the connection is given back on both paths.                  *)
end_begin(before, inside) ==
    close(IF inside.res = "ok" THEN inside ELSE [inside EXCEPT !.db = before.db])

(* conn.execute(ins, data) on the table object `table` of the catalog: the *)
(* rows go to the database one after the other; the first one it rejects   *)
(* raises.                                                                 *)
execute_insert(r, table_name, data) ==
    LET table == r.catalog[table_name]
        target == r.db[table_name]
        keys == IF data.rows = <<>> THEN {} ELSE {data.cols[k] : k \in DOMAIN data.cols}
    IN  IF ~(keys \subseteq NamesOf(table.cols)) THEN Raise(r, "CompileError")
        ELSE IF ~target.exists \/ ~(keys \subseteq NamesOf(target.cols))
             THEN Raise(Sent(r, "INSERT"), "DatabaseError")
        ELSE LET rows == RowsSent(target.cols, data)
                 n == TakenBeforeReject(target.cols, rows, 1)
                 stored == [Sent(r, "INSERT") EXCEPT
                               !.db[table_name].rows =
                                   @ \o HeldRows(target.cols, SubSeq(rows, 1, n))]
             IN  IF n < Len(rows) THEN Raise(stored, "DatabaseError") ELSE stored

(* An insert that enters the `with self.engine.begin()` block before it    *)
(* looks the table up.                                                     *)
insert_begins_first(r, table_name, data) ==
    LET records == IF data.py = "DataFrame" THEN df2dict(NotNullOrNone(data)) ELSE data
        conn == connect(r)
    IN  IF NoMetadata(r) THEN end_begin(conn, Raise(conn, "AttributeError"))
        ELSE IF ~r.catalog[table_name].exists THEN end_begin(conn, Raise(conn, "KeyError"))
        ELSE LET done == end_begin(conn, execute_insert(conn, table_name, records))
             IN  IF done.res = "ok" THEN _refresh(done) ELSE done

(* Sql.insert(table_name, data).                                           *)
insert(r, table_name, data) ==
    LET records == IF data.py = "DataFrame" THEN df2dict(NotNullOrNone(data)) ELSE data
    IN  IF NoMetadata(r) THEN Raise(r, "AttributeError")
        ELSE IF ~r.catalog[table_name].exists THEN Raise(r, "KeyError")
        ELSE LET conn == connect(r)
                 done == end_begin(conn, execute_insert(conn, table_name, records))
             IN  IF done.res = "ok" THEN _refresh(done) ELSE done

(* table.drop(self.engine) and table.create(self.engine): the engine takes *)
(* a connection for the statement and gives it back when the statement has *)
(* run or has failed.                                                      *)
table_drop(r, table_name) ==
    LET conn == Sent(connect(r), "DROP")
    IN  IF ~conn.db[table_name].exists THEN close(Raise(conn, "DatabaseError"))
        ELSE close([conn EXCEPT !.db[table_name] = NoTable])

(* A create that checks first (CREATE TABLE IF NOT EXISTS): a table that   *)
(* exists is no error.                                                     *)
table_create_checkfirst(r, table_name) ==
    LET conn == Sent(connect(r), "CREATE")
        table == r.catalog[table_name]
    IN  IF conn.db[table_name].exists THEN close(conn)
        ELSE IF table.cols = <<>> THEN close(Raise(conn, "DatabaseError"))
        ELSE close([conn EXCEPT !.db[table_name] =
                                  [exists |-> TRUE, cols |-> table.cols, rows |-> <<>>]])

table_create(r, table_name) ==
    LET conn == Sent(connect(r), "CREATE")
        table == r.catalog[table_name]
    IN  IF conn.db[table_name].exists \/ table.cols = <<>>
        THEN close(Raise(conn, "DatabaseError"))
        ELSE close([conn EXCEPT !.db[table_name] =
                                  [exists |-> TRUE, cols |-> table.cols, rows |-> <<>>]])

(* Sql.drop_table(table_name): the Table object stays in self.metadata;    *)
(* _refresh only adds to it.                                               *)
drop_table(r, table_name) ==
    IF NoMetadata(r) THEN Raise(r, "AttributeError")
    ELSE IF ~r.catalog[table_name].exists THEN Raise(r, "KeyError")
    ELSE LET dropped == table_drop(r, table_name)
         IN  IF dropped.res = "ok" THEN _refresh(dropped) ELSE dropped

(* (self.metadata).remove((self.metadata).tables[table_name])              *)
metadata_remove(r, table_name) ==
    IF ~r.catalog[table_name].exists THEN Raise(r, "KeyError")
    ELSE [r EXCEPT !.catalog[table_name] = NoEntry]

(* Table(table_name, self.metadata, *col_query): a name the MetaData holds *)
(* already is refused when columns are given.                              *)
Table(r, table_name, col_query) ==
    IF NoMetadata(r) THEN Raise(r, "AttributeError")
    ELSE IF r.catalog[table_name].exists
    THEN IF col_query # <<>> THEN Raise(r, "InvalidRequestError") ELSE r
    ELSE [r EXCEPT !.catalog[table_name] = [exists |-> TRUE, cols |-> col_query]]

(* col_query of Sql.write_table: one Column per column of data, typed by   *)
(* _sql_dtypes on the value in the first row, data[col][data.index[0]].    *)
col_query(data, char_limit) ==
    [j \in 1..Len(data.cols) |->
        ColumnDef(data.cols[j],
                  _sql_dtypes(ScalarClass(data.dtypes[j], data.rows[1][j]), char_limit))]

(* Sql.write_table from `column_names = ...` on: the table is created from *)
(* the first row of data and, unless create is set, filled.                *)
write_new_table(r, data, table_name, create, char_limit) ==
    IF data.cols # <<>> /\ data.rows = <<>> THEN Raise(r, "IndexError")
    ELSE LET table == Table(r, table_name, col_query(data, char_limit))
             created == IF table.res = "ok" THEN table_create(table, table_name) ELSE table
             filled == IF created.res = "ok" /\ ~create
                       THEN insert(created, table_name, data)
                       ELSE created
         IN  IF filled.res = "ok" THEN _refresh(filled) ELSE filled

(* Sql.write_table(data, table_name, if_exists, create, char_limit), with  *)
(* index=False.  `raise ValueError(...) % table_name` applies % to the     *)
(* exception object, which raises TypeError.  The connection made for      *)
(* has_table is not closed.                                                *)
write_table(r, data, table_name, if_exists, create, char_limit) ==
    LET df == IF data.py = "list" THEN dict2df(data) ELSE data
    IN  IF if_exists \notin {"append", "fail", "replace"} THEN Raise(r, "TypeError")
        ELSE LET checked == Sent(connect(r), "HAS_TABLE")
                 existence == checked.db[table_name].exists
             IN  IF existence /\ if_exists = "fail" THEN Raise(checked, "TypeError")
                 ELSE IF existence /\ if_exists = "append"
                      THEN insert(checked, table_name, df)
                 ELSE IF existence
                      THEN LET dropped == drop_table(checked, table_name)
                               removed == IF dropped.res = "ok"
                                          THEN metadata_remove(dropped, table_name)
                                          ELSE dropped
                           IN  IF removed.res = "ok"
                               THEN write_new_table(removed, df, table_name, create, char_limit)
                               ELSE removed
                 ELSE write_new_table(checked, df, table_name, create, char_limit)

(* The statements given to Sql.query: a SELECT of all rows, a DROP TABLE,  *)
(* a CREATE TABLE with one text column.                                    *)
Statements == [kind : {"SELECT", "DROP", "CREATE"}, table : TableNames]

(* conn.execute(query) for a statement string: the database runs it or     *)
(* rejects it.  out holds the result rows of a SELECT.                     *)
conn_execute(r, q) ==
    LET sent == Sent(r, q.kind)
        target == r.db[q.table]
    IN  CASE q.kind = "SELECT" ->
               IF ~target.exists THEN Raise(sent, "DatabaseError")
               ELSE [sent EXCEPT !.out = ListOf([j \in 1..Len(target.cols) |-> target.cols[j].name],
                                                target.rows)]
          [] q.kind = "DROP" ->
               IF ~target.exists THEN Raise(sent, "DatabaseError")
               ELSE [sent EXCEPT !.db[q.table] = NoTable]
          [] q.kind = "CREATE" ->
               IF target.exists THEN Raise(sent, "DatabaseError")
               ELSE [sent EXCEPT !.db[q.table] =
                        [exists |-> TRUE, cols |-> <<ColumnDef("id", Text)>>, rows |-> <<>>]]

(* A query that, like lazy_query, returns at once when the statement has   *)
(* no result set.                                                          *)
query_returns_early(r, q, commit) ==
    LET conn == connect(r)
        committed == IF commit THEN Sent(conn, "COMMIT") ELSE conn
        result == conn_execute(committed, q)
    IN  IF result.res # "ok" THEN result
        ELSE IF q.kind # "SELECT" THEN close(result)
        ELSE _refresh(close([result EXCEPT !.out = dict2df(result.out)]))

(* A query that commits once the statement has run.                        *)
query_commits_after(r, q, commit) ==
    LET conn == connect(r)
        result == conn_execute(conn, q)
        committed == IF commit /\ result.res = "ok" THEN Sent(result, "COMMIT") ELSE result
    IN  IF committed.res # "ok" THEN committed
        ELSE IF q.kind # "SELECT" THEN _refresh(close(committed))
        ELSE _refresh(close([committed EXCEPT !.out = dict2df(committed.out)]))

(* Sql.query(query, commit): when the statement raises, conn.close() is    *)
(* not reached.                                                            *)
query(r, q, commit) ==
    LET conn == connect(r)
        committed == IF commit THEN Sent(conn, "COMMIT") ELSE conn
        result == conn_execute(committed, q)
    IN  IF result.res # "ok" THEN result
        ELSE IF q.kind # "SELECT" THEN _refresh(close(result))
        ELSE _refresh(close([result EXCEPT !.out = dict2df(result.out)]))

(* Sql.import_table(table_name, output) with index_name=None: the          *)
(* connection is taken first and never closed.                             *)
import_table(r, table_name, output) ==
    LET conn == connect(r)
    IN  IF NoMetadata(conn) THEN Raise(conn, "AttributeError")
        ELSE IF ~conn.catalog[table_name].exists THEN Raise(conn, "KeyError")
        ELSE LET result == conn_execute(conn, [kind |-> "SELECT", table |-> table_name])
             IN  IF result.res # "ok" THEN result
                 ELSE IF output = "df" THEN [result EXCEPT !.out = dict2df(result.out)]
                 ELSE result

(* The generator object of Sql.lazy_query: "created" until the first       *)
(* next(), "running" between two yields, "done" once its body has ended.   *)
(* pending are the rows of the result not fetched yet, yielded the records *)
(* handed out so far, res the outcome of the last next().                  *)
NoGenerator == [state |-> "none", stmt |-> "", table |-> "", cols |-> <<>>,
                pending |-> <<>>, yielded |-> <<>>, res |-> "ok"]

(* Sql.lazy_query(query): the call of a generator function runs none of    *)
(* its body.                                                               *)
lazy_query(q) == [NoGenerator EXCEPT !.state = "created", !.stmt = q.kind, !.table = q.table]

(* The loop `for row in result: ... yield data` from where the generator   *)
(* stands: the next row is yielded; after the last one result.close()      *)
(* gives the connection back, self._refresh() runs and the body ends.      *)
resume(r, g) ==
    IF g.pending = <<>>
    THEN [run |-> _refresh(close(r)),
          gen |-> [g EXCEPT !.state = "done", !.res = "StopIteration"]]
    ELSE [run |-> r,
          gen |-> [g EXCEPT !.state = "running", !.res = "ok",
                            !.yielded = Append(@, Head(g.pending)),
                            !.pending = Tail(@)]]

(* A generator that runs its body again when next() is called after the    *)
(* body has ended.                                                         *)
next_restarts(r, g) ==
    IF g.state \in {"created", "done"}
    THEN LET result == conn_execute(connect(r), [kind |-> g.stmt, table |-> g.table])
         IN  IF result.res # "ok"
             THEN [run |-> close(result), gen |-> [g EXCEPT !.state = "done", !.res = result.res]]
             ELSE IF g.stmt # "SELECT"
             THEN [run |-> close(result),
                   gen |-> [g EXCEPT !.state = "done", !.res = "StopIteration"]]
             ELSE resume([result EXCEPT !.out = NoValue],
                         [g EXCEPT !.cols = result.out.cols, !.pending = result.out.rows])
    ELSE resume(r, g)

(* next(generator).  The first one runs the body from its start:           *)
(* self.engine.execute(query) takes a connection that goes back when the   *)
(* result is closed, at once for a statement that fails or has no result   *)
(* set; the body returns without a refresh when the result has no column   *)
(* metadata.  A generator whose body has ended raises StopIteration.       *)
next(r, g) ==
    IF g.state = "created"
    THEN LET result == conn_execute(connect(r), [kind |-> g.stmt, table |-> g.table])
         IN  IF result.res # "ok"
             THEN [run |-> close(result), gen |-> [g EXCEPT !.state = "done", !.res = result.res]]
             ELSE IF g.stmt # "SELECT"
             THEN [run |-> close(result),
                   gen |-> [g EXCEPT !.state = "done", !.res = "StopIteration"]]
             ELSE resume([result EXCEPT !.out = NoValue],
                         [g EXCEPT !.cols = result.out.cols, !.pending = result.out.rows])
    ELSE IF g.state = "running" THEN resume(r, g)
    ELSE [run |-> r, gen |-> [g EXCEPT !.res = "StopIteration"]]

----------------------------------------------------------------------------
(* The constructor.  A string is the sequence of its pieces, so that it    *)
(* can be joined and searched; None is the empty sequence (the empty       *)
(* string, as false as None, is not among the arguments tried).            *)

None == <<>>

(* '{0}'.format(value) *)
format(v) == IF v = None THEN <<"None">> ELSE v

(* str.replace(' ', '+') *)
replace(str) == [i \in 1..Len(str) |-> IF str[i] = " " THEN "+" ELSE str[i]]

(* The object before the body of __init__ has run.                         *)
NoSql ==
    [called |-> FALSE, db_sys |-> "", dsn |-> None, db |-> None, host |-> None,
     port |-> None, ad |-> FALSE, trusted |-> FALSE, domain |-> None, arg_uid |-> None,
     arg_pwd |-> None, uid |-> None, pwd |-> None, driver |-> None, prompts |-> <<>>,
     engine_url |-> None, conns |-> 0, res |-> "ok",
     schema |-> None, skip_reflect |-> FALSE, has_metadata |-> FALSE, metadata |-> {},
     engine |-> None, pools |-> 0]

(* Sql._get_creds(ad): in its body `domain` and `uid` are names of no      *)
(* variable (they are parameters of __init__), so the line that builds     *)
(* the qualified name raises NameError; the line is reached only when the  *)
(* username has been asked for.                                            *)
_get_creds(s, ad) ==
    LET named == IF s.uid = None
                 THEN LET asked == [s EXCEPT !.uid = <<"typed_user">>,
                                             !.prompts = Append(@, "DB Username")]
                      IN  IF ad THEN [asked EXCEPT !.res = "NameError"] ELSE asked
                 ELSE s
    IN  IF named.res # "ok" THEN named
        ELSE IF named.pwd = None
             THEN [named EXCEPT !.pwd = <<"typed_pwd">>,
                                !.prompts = Append(@, "DB Password")]
        ELSE named

(* '<scheme>://{0}:{1}@' with self.uid and self.__pwd *)
Credentials(s) == format(s.uid) \o <<":">> \o format(s.pwd) \o <<"@">>

(* Sql._dsn_url: a db_sys that no branch names leaves engine_url           *)
(* unassigned, and `return engine_url` raises UnboundLocalError.           *)
_dsn_url(s) ==
    CASE s.db_sys = "mssql" ->
           IF s.trusted
           THEN [s EXCEPT !.engine_url = <<"mssql+pyodbc://">> \o format(s.dsn)]
           ELSE [s EXCEPT !.engine_url =
                    <<"mssql+pyodbc://">> \o Credentials(s) \o format(s.dsn)]
      [] s.db_sys = "sqlite" ->
           [s EXCEPT !.engine_url = <<"sqlite:///">> \o format(s.dsn)]
      [] s.db_sys = "vertica" ->
           [s EXCEPT !.engine_url =
               <<"vertica+pyodbc://">> \o Credentials(s) \o format(s.dsn)]
      [] s.db_sys = "postgres" ->
           [s EXCEPT !.engine_url =
               <<"postgresql+psycopg2://">> \o Credentials(s) \o format(s.dsn)]
      [] s.db_sys = "redshift" ->
           [s EXCEPT !.engine_url =
               <<"redshift+psycopg2://">> \o Credentials(s) \o format(s.dsn)]
      [] OTHER -> [s EXCEPT !.res = "UnboundLocalError"]

(* '{host}:{port}/{db}' *)
Location(s) == format(s.host) \o <<":">> \o format(s.port) \o <<"/">> \o format(s.db)

(* Sql._var_url: the driver is looked at in one branch only, mssql without *)
(* trusted.                                                                *)
_var_url(s) ==
    CASE s.db_sys = "mssql" ->
           IF s.trusted
           THEN [s EXCEPT !.engine_url = <<"mssql+pyodbc://">> \o Location(s)]
           ELSE IF s.driver # None
           THEN [s EXCEPT !.driver = replace(s.driver),
                          !.engine_url = <<"mssql+pyodbc://">> \o Credentials(s)
                                             \o Location(s) \o <<"?driver=">>
                                             \o replace(s.driver)]
           ELSE [s EXCEPT !.engine_url =
                    <<"mssql+pyodbc://">> \o Credentials(s) \o Location(s)]
      [] s.db_sys = "sqlite" ->
           [s EXCEPT !.engine_url = <<"sqlite:///">> \o format(s.host)]
      [] s.db_sys = "vertica" ->
           [s EXCEPT !.engine_url =
               <<"vertica+pyodbc://">> \o Credentials(s) \o Location(s)]
      [] s.db_sys = "postgres" ->
           [s EXCEPT !.engine_url =
               <<"postgresql+psycopg2://">> \o Credentials(s) \o Location(s)]
      [] s.db_sys = "redshift" ->
           [s EXCEPT !.engine_url =
               <<"redshift+psycopg2://">> \o Credentials(s) \o Location(s)]
      [] OTHER -> [s EXCEPT !.res = "UnboundLocalError"]

(* Sql.__init__ with skip_reflect=False: the credentials, then the engine  *)
(* url, then _connect, whose reflection opens the first connection.        *)
__init__(a) ==
    LET self == [a EXCEPT !.called = TRUE, !.uid = a.arg_uid, !.pwd = a.arg_pwd]
        creds == IF ~self.trusted THEN _get_creds(self, self.ad) ELSE self
        url == IF creds.res # "ok" THEN creds
               ELSE IF creds.dsn # None THEN _dsn_url(creds)
               ELSE IF creds.db # None /\ creds.host # None /\ creds.port # None
                    THEN _var_url(creds)
               ELSE [creds EXCEPT !.res = "ValueError"]
    IN  IF url.res # "ok" THEN url ELSE [url EXCEPT !.conns = 1]

----------------------------------------------------------------------------
(* The server a session connects to: databases, each with a default schema *)
(* (None) and named schemas, each schema with its tables.                  *)

DbNames == {<<"db1">>, <<"db2">>}
SchemaNames == {None, <<"s1">>}
TableIds == {<<"t1">>}

NoServer == [d \in DbNames, n \in SchemaNames |-> {}]

(* The database the data source name stands for in odbc.ini.               *)
DsnDatabase == <<"db1">>

(* The part of an engine url after 'user:password@'.                       *)
AfterAt(url) ==
    IF \E k \in DOMAIN url : url[k] = "@"
    THEN SubSeq(url, (CHOOSE k \in DOMAIN url : url[k] = "@") + 1, Len(url))
    ELSE Tail(url)

(* The database a connection made from the engine url reaches: the one the *)
(* data source name stands for, or the one named after 'host:port/'; None  *)
(* when the url names no host or no database the server has.               *)
Database(url) ==
    LET loc == AfterAt(url)
    IN  IF Len(loc) = 1 THEN (IF loc = <<"dsn1">> THEN DsnDatabase ELSE None)
        ELSE IF loc[1] # "host1" \/ loc[3] # "5432" \/ <<loc[5]>> \notin DbNames THEN None
        ELSE <<loc[5]>>

(* The key of a table in MetaData.tables: 'schema.table', or 'table' when  *)
(* the MetaData has no schema.                                             *)
TableKey(schema, table) == IF schema = None THEN table ELSE schema \o <<".">> \o table

(* MetaData(schema=schema).reflect(bind=engine) into a new MetaData: one   *)
(* entry for each table of that schema of the database the engine reaches. *)
Reflected(srv, database, schema) ==
    {[key |-> TableKey(schema, t), database |-> database, schema |-> schema, table |-> t] :
        t \in srv[database, schema]}

(* create_engine(engine_url) parses the url: the port, when the url has    *)
(* one, must be a number (int(port) raises ValueError otherwise).          *)
PortIsNumber(url) ==
    LET loc == AfterAt(url)
    IN  (Len(loc) >= 3 /\ loc[2] = ":") => loc[3] \in {"5432", "1433"}

(* Sql._connect(engine_url, skip_reflect) on a server: create_engine       *)
(* parses the url and makes no connection; self.skip_reflect is set; the   *)
(* reflection connects, and when it raises neither self.metadata nor       *)
(* self.engine is assigned.                                                *)
_connect_to(s, srv, engine_url, skip) ==
    LET set == [s EXCEPT !.skip_reflect = skip]
    IN  IF ~PortIsNumber(engine_url) THEN [s EXCEPT !.res = "ValueError"]
        ELSE IF skip THEN [set EXCEPT !.engine = engine_url, !.pools = @ + 1]
        ELSE IF Database(engine_url) = None THEN [set EXCEPT !.res = "OperationalError"]
        ELSE [set EXCEPT !.has_metadata = TRUE,
                         !.metadata = Reflected(srv, Database(engine_url), s.schema),
                         !.engine = engine_url, !.pools = @ + 1]

(* Sql(...) on a server: __init__ with its last line, the call of          *)
(* _connect with the engine url and the skip_reflect given.                *)
Opened(a, srv) ==
    LET s == __init__(a)
    IN  IF s.res # "ok" THEN s ELSE _connect_to(s, srv, s.engine_url, a.skip_reflect)

(* The skip_reflect argument of change_db and change_schema: left out, it  *)
(* is False.                                                               *)
SkipArguments == {"omitted", "True", "False"}
SkipOf(arg) == arg = "True"

(* Sql.change_db(db, skip_reflect): self.db is set, the url is built by    *)
(* _var_url whatever the session was made from, and _connect is called.    *)
change_db_to(s, srv, database, arg) ==
    LET set == [s EXCEPT !.db = database, !.res = "ok"]
        url == _var_url(set)
    IN  IF url.res # "ok" THEN url ELSE _connect_to(url, srv, url.engine_url, SkipOf(arg))

(* Sql.change_schema(schema, skip_reflect): the same with self.schema.     *)
change_schema_to(s, srv, schema, arg) ==
    LET set == [s EXCEPT !.schema = schema, !.res = "ok"]
        url == _var_url(set)
    IN  IF url.res # "ok" THEN url ELSE _connect_to(url, srv, url.engine_url, SkipOf(arg))

(* The table methods on a session with a schema.  A run is the session,    *)
(* the server and the names the call has used so far (sent): for each      *)
(* statement and each look-up in self.metadata.tables, the full name it    *)
(* went to.  A table of the server is a name within a schema; a name may   *)
(* hold a dot.  The data is one that fits.                                 *)
StoredNames == {<<"t1">>, <<"s1", ".", "t1">>}

SchemaRun(s, srv) == [sql |-> [s EXCEPT !.res = "ok"], server |-> srv, sent |-> <<>>]

Fails(x, exception) == [x EXCEPT !.sql.res = exception]

Used(x, stmt, schema, name) ==
    [x EXCEPT !.sent = Append(@, [stmt |-> stmt, name |-> TableKey(schema, name)])]

On(x) == Database(x.sql.engine)

(* if self.schema: table_name = self.schema + '.' + table_name             *)
Qualified(s, table_name) ==
    IF s.schema # None THEN s.schema \o <<".">> \o table_name ELSE table_name

(* (self.metadata).tables[table_name]                                      *)
Holds(x, key) == \E e \in x.sql.metadata : e.key = key

Entry(x, key) == CHOOSE e \in x.sql.metadata : e.key = key

(* Sql._refresh on the server: the tables of the schema of the MetaData    *)
(* that it does not hold yet are added.                                    *)
_refresh_in(x) ==
    IF x.sql.skip_reflect THEN x
    ELSE [x EXCEPT !.sql.metadata =
             @ \cup {e \in Reflected(x.server, On(x), x.sql.schema) : ~Holds(x, e.key)}]

(* Sql.drop_table(table_name)                                              *)
drop_table_in(x, table_name) ==
    LET name == Qualified(x.sql, table_name)
        looked == Used(x, "LOOKUP", None, name)
    IN  IF ~x.sql.has_metadata THEN Fails(x, "AttributeError")
        ELSE IF ~Holds(x, name) THEN Fails(looked, "KeyError")
        ELSE LET table == Entry(x, name)
                 sent == Used(looked, "DROP", table.schema, table.table)
             IN  IF table.table \notin x.server[On(x), table.schema]
                 THEN Fails(sent, "DatabaseError")
                 ELSE _refresh_in([sent EXCEPT !.server[On(x), table.schema] = @ \ {table.table}])

(* Sql.insert(table_name, data)                                            *)
insert_in(x, table_name) ==
    LET name == Qualified(x.sql, table_name)
        looked == Used(x, "LOOKUP", None, name)
    IN  IF ~x.sql.has_metadata THEN Fails(x, "AttributeError")
        ELSE IF ~Holds(x, name) THEN Fails(looked, "KeyError")
        ELSE LET table == Entry(x, name)
                 sent == Used(looked, "INSERT", table.schema, table.table)
             IN  IF table.table \notin x.server[On(x), table.schema]
                 THEN Fails(sent, "DatabaseError")
                 ELSE _refresh_in(sent)

(* (self.metadata).remove((self.metadata).tables[table_name])              *)
metadata_remove_in(x, name) ==
    LET looked == Used(x, "LOOKUP", None, name)
    IN  IF ~Holds(x, name) THEN Fails(looked, "KeyError")
        ELSE [looked EXCEPT !.sql.metadata = @ \ {Entry(x, name)}]

(* Table(table_name, self.metadata, *col_query) and table.create: the      *)
(* Table takes the schema of the MetaData, its key is that schema, a dot   *)
(* and the name it is given.                                               *)
Table_in(x, name) ==
    LET key == TableKey(x.sql.schema, name)
    IN  IF ~x.sql.has_metadata THEN Fails(x, "AttributeError")
        ELSE IF Holds(x, key) THEN Fails(x, "InvalidRequestError")
        ELSE [x EXCEPT !.sql.metadata =
                 @ \cup {[key |-> key, database |-> On(x), schema |-> x.sql.schema,
                          table |-> name]}]

table_create_in(x, name) ==
    LET sent == Used(x, "CREATE", x.sql.schema, name)
    IN  IF name \in x.server[On(x), x.sql.schema] THEN Fails(sent, "DatabaseError")
        ELSE [sent EXCEPT !.server[On(x), x.sql.schema] = @ \cup {name}]

(* Sql.write_table(data, table_name, if_exists, create): the name is       *)
(* qualified at the top; has_table is given the qualified name and no      *)
(* schema, so it looks for a table of that name in the default schema;     *)
(* drop_table and insert are given the qualified name.                     *)
write_table_in(x, table_name, if_exists, create) ==
    LET name == Qualified(x.sql, table_name)
        checked == Used(x, "HAS_TABLE", None, name)
        existence == name \in x.server[On(x), None]
        dropped == drop_table_in(checked, name)
        removed == IF dropped.sql.res = "ok" THEN metadata_remove_in(dropped, name)
                   ELSE dropped
        start == IF existence THEN removed ELSE checked
        table == IF start.sql.res = "ok" THEN Table_in(start, name) ELSE start
        created == IF table.sql.res = "ok" THEN table_create_in(table, name) ELSE table
        filled == IF created.sql.res = "ok" /\ ~create THEN insert_in(created, name)
                  ELSE created
    IN  IF existence /\ if_exists = "fail" THEN Fails(checked, "TypeError")
        ELSE IF existence /\ if_exists = "append" THEN insert_in(checked, name)
        ELSE IF filled.sql.res = "ok" THEN _refresh_in(filled) ELSE filled

----------------------------------------------------------------------------
(* Two calls of write_table that run at the same time, from two threads on *)
(* one session (one MetaData) or on two sessions (a MetaData each), on one *)
(* database.  A call stands before a line of write_table: 397 (has_table), *)
(* 403 (drop_table), 404 (metadata.remove), 406 (insert), 422 (Table),     *)
(* 423 (table.create), 426 (insert), 428 (_refresh), or has ended (0).     *)
(* What a line does is one step; the calls of Sql.insert and               *)
(* Sql.drop_table are one step each.                                       *)

Callers == {1, 2}

NoCall == [line |-> 0, session |-> 1, data |-> NoValue, if_exists |-> "", create |-> FALSE,
           existence |-> FALSE, checked |-> FALSE, created |-> FALSE, res |-> "ok",
           stmts |-> <<>>]

NoCalls == [shared |-> FALSE, catalogs |-> <<>>, of |-> [c \in Callers |-> NoCall]]

(* The run of a step of the call on the database and on the MetaData of    *)
(* its session.                                                            *)
RunOf(database, tables) ==
    [db |-> database, catalog |-> tables, has_metadata |-> TRUE, skip_reflect |-> FALSE,
     checkedOut |-> 0, reflect_fails |-> 0,
     res |-> "ok", stmts |-> <<>>, via |-> <<>>, conns |-> 0,
     out |-> NoValue]

(* The line the call goes to when the line it stood before has run as the  *)
(* run r: an exception ends the call.                                      *)
Ended(call, r, line) ==
    [call EXCEPT !.line = IF r.res = "ok" THEN line ELSE 0,
                 !.res = r.res,
                 !.stmts = @ \o r.stmts]

(* The line of Sql.write_table the call stands before, run on r.           *)
write_table_line(r, call, table_name) ==
    LET df == IF call.data.py = "list" THEN dict2df(call.data) ELSE call.data
    IN  CASE call.line = 397 ->
               LET checked == Sent(connect(r), "HAS_TABLE")
                   existence == checked.db[table_name].exists
                   seen == [call EXCEPT !.existence = existence, !.checked = TRUE]
               IN  [run |-> IF existence /\ call.if_exists = "fail"
                            THEN Raise(checked, "TypeError") ELSE checked,
                    call |-> IF existence /\ call.if_exists = "fail"
                             THEN Ended(seen, Raise(checked, "TypeError"), 0)
                             ELSE IF existence /\ call.if_exists = "replace"
                             THEN Ended(seen, checked, 403)
                             ELSE IF existence THEN Ended(seen, checked, 406)
                             ELSE Ended(seen, checked, 422)]
          [] call.line = 403 ->
               LET dropped == drop_table(r, table_name)
               IN  [run |-> dropped, call |-> Ended(call, dropped, 404)]
          [] call.line = 404 ->
               LET removed == metadata_remove(r, table_name)
               IN  [run |-> removed, call |-> Ended(call, removed, 422)]
          [] call.line = 406 ->
               LET done == insert(r, table_name, df)
               IN  [run |-> done, call |-> Ended(call, done, 0)]
          [] call.line = 422 ->
               LET table == IF df.cols # <<>> /\ df.rows = <<>> THEN Raise(r, "IndexError")
                            ELSE Table(r, table_name, col_query(df, DefaultCharLimit))
               IN  [run |-> table, call |-> Ended(call, table, 423)]
          [] call.line = 423 ->
               LET made == table_create(r, table_name)
               IN  [run |-> made,
                    call |-> Ended([call EXCEPT !.created = (made.res = "ok")], made,
                                   IF call.create THEN 428 ELSE 426)]
          [] call.line = 426 ->
               LET filled == insert(r, table_name, df)
               IN  [run |-> filled, call |-> Ended(call, filled, 428)]
          [] call.line = 428 ->
               LET fresh == _refresh(r)
               IN  [run |-> fresh, call |-> Ended(call, fresh, 0)]

----------------------------------------------------------------------------
(* The session as a state machine: each action is one call of a method,    *)
(* from its first line to its return or its exception.                     *)

IfExists == {"append", "fail", "replace"}
CharLimits == {DefaultCharLimit, WriteCharLimit}

(* The data and char_limit arguments write_table is called with: every     *)
(* input with the default char_limit, the input of three columns with      *)
(* char_limit=WriteCharLimit as well.                                      *)
WriteArguments ==
    {<<data, DefaultCharLimit>> : data \in WriteInputs} \cup {<<ThreeColumns, WriteCharLimit>>}

Idle == [op |-> "none", table |-> "", if_exists |-> "", create |-> FALSE,
         stmt |-> "", commit |-> FALSE, output |-> "", skip |-> "", fault |-> 0,
         name |-> <<>>, sent |-> <<>>,
         res |-> "ok", stmts |-> <<>>, via |-> <<>>, conns |-> 0, out |-> NoValue]

NoProbe == [value |-> "None", given |-> FALSE, char_limit |-> 0, fn |-> "", result |-> SqlType("", 0)]

(* A database the session may be opened on: each table absent, or present  *)
(* and empty with one text column.                                         *)
Databases ==
    [TableNames -> {NoTable, [exists |-> TRUE, cols |-> <<ColumnDef("id", Text)>>, rows |-> <<>>]}]

(* Sql._connect(engine_url, skip_reflect) on the database: a new engine    *)
(* with a pool of its own; unless skip_reflect is set, a fresh MetaData,   *)
(* reflected, becomes self.metadata; with it set self.metadata is left as  *)
(* it is, assigned or not.                                                 *)
_connect(r, skip) ==
    LET engine == [r EXCEPT !.checkedOut = 0, !.skip_reflect = skip]
    IN  IF skip THEN engine
        ELSE [close(Sent(connect(engine), "REFLECT")) EXCEPT
                 !.has_metadata = TRUE,
                 !.catalog = reflect([t \in TableNames |-> NoEntry], r.db)]

(* Sql.change_db(db, skip_reflect) and Sql.change_schema(schema,           *)
(* skip_reflect), called with the database and the schema the session is   *)
(* on already.                                                             *)
change_db(r, skip) == _connect(r, skip)

change_schema(r, skip) == _connect(r, skip)

(* Sql.__init__ -> Sql._connect: with skip_reflect no MetaData is made.    *)
Init ==
    /\ db \in Databases
    /\ skip_reflect \in BOOLEAN
    /\ has_metadata = ~skip_reflect
    /\ catalog = IF skip_reflect THEN [t \in TableNames |-> NoEntry]
                 ELSE reflect([t \in TableNames |-> NoEntry], db)
    /\ checkedOut = 0
    /\ last = Idle
    /\ gen = NoGenerator
    /\ sql = NoSql
    /\ probe = NoProbe
    /\ server = NoServer
    /\ calls = NoCalls

Begin == [db |-> db, catalog |-> catalog, has_metadata |-> has_metadata,
          skip_reflect |-> skip_reflect, checkedOut |-> checkedOut, reflect_fails |-> 0,
          res |-> "ok", stmts |-> <<>>, via |-> <<>>, conns |-> 0, out |-> NoValue]

(* The runs explored: within the bounds on rows and connections.           *)
Explored(r) ==
    /\ r.checkedOut <= MaxCheckedOut
    /\ \A t \in TableNames : Len(r.db[t].rows) <= MaxRows

Return(r, call) ==
    /\ db' = r.db
    /\ catalog' = r.catalog
    /\ has_metadata' = r.has_metadata
    /\ skip_reflect' = r.skip_reflect
    /\ checkedOut' = r.checkedOut
    /\ last' = [call EXCEPT !.res = r.res, !.stmts = r.stmts, !.via = r.via,
                            !.conns = r.conns, !.out = r.out]
    /\ UNCHANGED <<gen, sql, probe, server, calls>>

CallInsert ==
    \E t \in TableNames, data \in Inputs :
        \E r \in {insert(Begin, t, data)} :
            /\ Explored(r)
            /\ Return(r, [Idle EXCEPT !.op = "insert", !.table = t])

CallWriteTable ==
    \E t \in TableNames, a \in WriteArguments, e \in IfExists, c \in BOOLEAN :
        \E r \in {write_table(Begin, a[1], t, e, c, a[2])} :
            /\ Explored(r)
            /\ Return(r, [Idle EXCEPT !.op = "write_table", !.table = t,
                                      !.if_exists = e, !.create = c])

CallDropTable ==
    \E t \in TableNames :
        \E r \in {drop_table(Begin, t)} :
            /\ Explored(r)
            /\ Return(r, [Idle EXCEPT !.op = "drop_table", !.table = t])

CallQuery ==
    \E q \in Statements, c \in BOOLEAN :
        \E r \in {query(Begin, q, c)} :
            /\ Explored(r)
            /\ Return(r, [Idle EXCEPT !.op = "query", !.table = q.table,
                                      !.stmt = q.kind, !.commit = c])

CallImportTable ==
    \E t \in TableNames, o \in {"dict", "df"} :
        \E r \in {import_table(Begin, t, o)} :
            /\ Explored(r)
            /\ Return(r, [Idle EXCEPT !.op = "import_table", !.table = t, !.output = o])

CallChangeDb ==
    \E skip \in BOOLEAN :
        \E r \in {change_db(Begin, skip)} :
            /\ Explored(r)
            /\ Return(r, [Idle EXCEPT !.op = "change_db"])

CallChangeSchema ==
    \E skip \in BOOLEAN :
        \E r \in {change_schema(Begin, skip)} :
            /\ Explored(r)
            /\ Return(r, [Idle EXCEPT !.op = "change_schema"])

(* A connection that was taken and never closed goes back to the pool when *)
(* the interpreter collects the Connection object (the pool's weak         *)
(* reference callback); when that happens is up to the interpreter.        *)
Collect ==
    /\ checkedOut > 0
    /\ checkedOut' = checkedOut - 1
    /\ last' = [Idle EXCEPT !.op = "collect"]
    /\ UNCHANGED <<db, catalog, has_metadata, skip_reflect, gen, sql, probe, server, calls>>

Next ==
    \/ CallInsert
    \/ CallWriteTable
    \/ CallDropTable
    \/ CallQuery
    \/ CallImportTable
    \/ CallChangeDb
    \/ CallChangeSchema
    \/ Collect

Spec == Init /\ [][Next]_vars

----------------------------------------------------------------------------
(* _sql_dtypes alone: a sample value is drawn, and a char_limit or none,   *)
(* and the function is applied to them.                                    *)

SampleValues ==
    {"True", "False", "0", "1", "1.5", "'a'", "''", "date(2020,1,1)",
     "datetime(2020,1,1,12,0)", "None", "numpy.int64(1)", "numpy.float64(1.5)",
     "numpy.bool_(True)", "Timestamp('2020-01-01 12:00')", "b'a'"}

TypeInit ==
    /\ db = [t \in TableNames |-> NoTable]
    /\ catalog = [t \in TableNames |-> NoEntry]
    /\ has_metadata = FALSE
    /\ skip_reflect = FALSE
    /\ checkedOut = 0
    /\ last = Idle
    /\ gen = NoGenerator
    /\ sql = NoSql
    /\ server = NoServer
    /\ calls = NoCalls
    /\ \E v \in SampleValues :
          \/ probe = [NoProbe EXCEPT !.value = v]
          \/ \E n \in 1..MaxCharLimit :
                probe = [NoProbe EXCEPT !.value = v, !.given = TRUE, !.char_limit = n]

(* The char_limit the function runs with: the argument, or the default of  *)
(* `def _sql_dtypes(value, char_limit=255)` when none is given.            *)
CharLimitOf(call) == IF call.given THEN call.char_limit ELSE DefaultCharLimit

CallSqlDtypes ==
    /\ probe.fn = ""
    /\ probe' = [probe EXCEPT !.fn = "db_pandas._sql_dtypes",
                              !.result = _sql_dtypes(TypeOf(probe.value), CharLimitOf(probe))]
    /\ UNCHANGED <<db, catalog, has_metadata, skip_reflect, checkedOut, last, gen, sql, server, calls>>

CallSqlDtypesDbToPandas ==
    /\ probe.fn = ""
    /\ probe' = [probe EXCEPT !.fn = "db_to_pandas._sql_dtypes",
                              !.result = _sql_dtypes_db_to_pandas(TypeOf(probe.value),
                                                                  CharLimitOf(probe))]
    /\ UNCHANGED <<db, catalog, has_metadata, skip_reflect, checkedOut, last, gen, sql, server, calls>>

TypeNext == CallSqlDtypes \/ CallSqlDtypesDbToPandas

TypeSpec == TypeInit /\ [][TypeNext]_vars

----------------------------------------------------------------------------
(* lazy_query alone: the session is opened on a database whose table, when *)
(* it has one, holds up to MaxRows rows; generators are made and advanced. *)

HeldValues == {"'1'", "'a'", "None"}

LazyDatabases ==
    [TableNames ->
        {NoTable} \cup
        {[exists |-> TRUE, cols |-> <<ColumnDef("id", Text)>>, rows |-> rows] :
            rows \in UNION {[1..k -> [1..1 -> HeldValues]] : k \in 0..MaxRows}}]

LazyInit ==
    /\ db \in LazyDatabases
    /\ skip_reflect \in BOOLEAN
    /\ has_metadata = ~skip_reflect
    /\ catalog = IF skip_reflect THEN [t \in TableNames |-> NoEntry]
                 ELSE reflect([t \in TableNames |-> NoEntry], db)
    /\ checkedOut = 0
    /\ last = Idle
    /\ gen = NoGenerator
    /\ sql = NoSql
    /\ probe = NoProbe
    /\ server = NoServer
    /\ calls = NoCalls

CallLazyQuery ==
    \E q \in Statements :
        /\ gen' = lazy_query(q)
        /\ last' = [Idle EXCEPT !.op = "lazy_query", !.table = q.table, !.stmt = q.kind]
        /\ UNCHANGED <<db, catalog, has_metadata, skip_reflect, checkedOut, sql, probe, server, calls>>

CallNext ==
    /\ gen.state # "none"
    /\ LET step == next(Begin, gen)
           r == step.run
       IN  /\ Explored(r)
           /\ db' = r.db
           /\ catalog' = r.catalog
           /\ has_metadata' = r.has_metadata
           /\ skip_reflect' = r.skip_reflect
           /\ checkedOut' = r.checkedOut
           /\ gen' = step.gen
           /\ last' = [Idle EXCEPT !.op = "next", !.table = gen.table, !.stmt = gen.stmt,
                                   !.res = step.gen.res, !.stmts = r.stmts, !.via = r.via,
                                   !.conns = r.conns]
           /\ UNCHANGED <<sql, probe, server, calls>>

(* The consumer stops reading and drops the generator while it stands at   *)
(* the yield: the interpreter closes it by raising GeneratorExit there,    *)
(* which leaves the body at once, so result.close() and self._refresh()    *)
(* do not run; the connection is still out and goes back when the result   *)
(* object is collected (Collect).                                          *)
Discard ==
    /\ gen.state = "running"
    /\ gen' = NoGenerator
    /\ last' = [Idle EXCEPT !.op = "discard", !.table = gen.table, !.stmt = gen.stmt]
    /\ UNCHANGED <<db, catalog, has_metadata, skip_reflect, checkedOut, sql, probe, server, calls>>

LazyNext ==
    \/ CallLazyQuery
    \/ CallNext
    \/ Discard
    \/ Collect

LazySpec == LazyInit /\ [][LazyNext]_vars

----------------------------------------------------------------------------
(* The constructor alone: arguments are drawn and Sql(...) is called.      *)

DbSystems == {"mssql", "sqlite", "vertica", "postgres", "redshift", "oracle"}
Supported == {"mssql", "sqlite", "vertica", "postgres", "redshift"}
Drivers == {None, <<"SQL", " ", "Server">>}

Arguments ==
    {[NoSql EXCEPT !.db_sys = s, !.dsn = n, !.db = d, !.host = h, !.port = p, !.ad = ad,
                   !.trusted = tr, !.domain = dom, !.arg_uid = u, !.arg_pwd = w,
                   !.driver = drv] :
        s \in DbSystems, n \in {None, <<"dsn1">>}, d \in {None, <<"db1">>},
        h \in {None, <<"host1">>}, p \in {None, <<"5432">>}, ad \in BOOLEAN,
        tr \in BOOLEAN, dom \in {None, <<"DOM">>}, u \in {None, <<"user">>},
        w \in {None, <<"secret">>}, drv \in Drivers}

ConnectInit ==
    /\ db = [t \in TableNames |-> NoTable]
    /\ catalog = [t \in TableNames |-> NoEntry]
    /\ has_metadata = FALSE
    /\ skip_reflect = FALSE
    /\ checkedOut = 0
    /\ last = Idle
    /\ gen = NoGenerator
    /\ sql \in Arguments
    /\ probe = NoProbe
    /\ server = NoServer
    /\ calls = NoCalls

CallSql ==
    /\ ~sql.called
    /\ sql' = __init__(sql)
    /\ UNCHANGED <<db, catalog, has_metadata, skip_reflect, checkedOut, last, gen, probe, server, calls>>

ConnectNext == CallSql

ConnectSpec == ConnectInit /\ [][ConnectNext]_vars

----------------------------------------------------------------------------
(* change_db and change_schema alone: a session is opened on a server,     *)
(* from a data source name or from db, host and port, with or without a    *)
(* schema and skip_reflect, and is switched from database to database and  *)
(* from schema to schema.                                                  *)

Servers == [DbNames \X SchemaNames -> SUBSET TableIds]

SwitchArguments ==
    {[NoSql EXCEPT !.db_sys = s, !.dsn = n[1], !.db = n[2], !.host = n[3], !.port = n[4],
                   !.arg_uid = <<"user">>, !.arg_pwd = <<"secret">>, !.schema = sch,
                   !.skip_reflect = skip] :
        s \in {"postgres", "mssql"},
        n \in {<<(<<"dsn1">>), None, None, None>>,
               <<None, (<<"db1">>), (<<"host1">>), (<<"5432">>)>>},
        sch \in SchemaNames, skip \in BOOLEAN}

SwitchInit ==
    /\ db = [t \in TableNames |-> NoTable]
    /\ catalog = [t \in TableNames |-> NoEntry]
    /\ has_metadata = FALSE
    /\ skip_reflect = FALSE
    /\ checkedOut = 0
    /\ last = Idle
    /\ gen = NoGenerator
    /\ probe = NoProbe
    /\ calls = NoCalls
    /\ server \in Servers
    /\ sql \in {Opened(a, server) : a \in SwitchArguments}

CallChangeDbTo ==
    \E database \in DbNames, arg \in SkipArguments :
        /\ sql.pools < MaxPools
        /\ sql' = change_db_to(sql, server, database, arg)
        /\ last' = [Idle EXCEPT !.op = "change_db", !.skip = arg, !.res = sql'.res]
        /\ UNCHANGED <<db, catalog, has_metadata, skip_reflect, checkedOut, gen, probe, server, calls>>

CallChangeSchemaTo ==
    \E schema \in SchemaNames, arg \in SkipArguments :
        /\ sql.pools < MaxPools
        /\ sql' = change_schema_to(sql, server, schema, arg)
        /\ last' = [Idle EXCEPT !.op = "change_schema", !.skip = arg, !.res = sql'.res]
        /\ UNCHANGED <<db, catalog, has_metadata, skip_reflect, checkedOut, gen, probe, server, calls>>

SwitchNext == CallChangeDbTo \/ CallChangeSchemaTo

SwitchSpec == SwitchInit /\ [][SwitchNext]_vars

----------------------------------------------------------------------------
(* Two calls of write_table for one table that the database does not have, *)
(* each with data of one row or more, run line by line in any order.       *)

RaceInputs ==
    {ListOf(<<"id">>, SubSeq(<<(<<"'a'">>), (<<"None">>), (<<"'a'">>)>>, 1, n)) :
        n \in 1..MaxBatch}

RaceInit ==
    /\ db = [t \in TableNames |-> NoTable]
    /\ catalog = [t \in TableNames |-> NoEntry]
    /\ has_metadata = FALSE
    /\ skip_reflect = FALSE
    /\ checkedOut = 0
    /\ last = Idle
    /\ gen = NoGenerator
    /\ sql = NoSql
    /\ probe = NoProbe
    /\ server = NoServer
    /\ \E shared \in BOOLEAN, data \in [Callers -> RaceInputs],
          e \in [Callers -> IfExists], cr \in [Callers -> BOOLEAN] :
          calls = [shared |-> shared,
                   catalogs |-> [n \in 1..(IF shared THEN 1 ELSE 2) |->
                                    reflect([t \in TableNames |-> NoEntry], db)],
                   of |-> [c \in Callers |->
                             [NoCall EXCEPT !.line = 397, !.session = IF shared THEN 1 ELSE c,
                                            !.data = data[c], !.if_exists = e[c],
                                            !.create = cr[c]]]]

RunLine ==
    \E c \in Callers, t \in TableNames :
        /\ calls.of[c].line # 0
        /\ LET call == calls.of[c]
               step == write_table_line(RunOf(db, calls.catalogs[call.session]), call, t)
           IN  /\ db' = step.run.db
               /\ calls' = [calls EXCEPT !.of[c] = step.call,
                                         !.catalogs[call.session] = step.run.catalog]
        /\ UNCHANGED <<catalog, has_metadata, skip_reflect, checkedOut, last, gen, sql, probe,
                       server>>

RaceNext == RunLine

RaceSpec == RaceInit /\ [][RaceNext]_vars

----------------------------------------------------------------------------
(* A session on db1, with or without a schema: tables are written,         *)
(* inserted into and dropped by name.                                      *)

SchemaServers ==
    {[d \in DbNames, n \in SchemaNames |-> IF d = <<"db1">> THEN f[n] ELSE {}] :
        f \in [SchemaNames -> SUBSET StoredNames]}

SchemaArguments ==
    {[NoSql EXCEPT !.db_sys = "postgres", !.db = <<"db1">>, !.host = <<"host1">>,
                   !.port = <<"5432">>, !.arg_uid = <<"user">>, !.arg_pwd = <<"secret">>,
                   !.schema = sch] : sch \in SchemaNames}

SchemaInit ==
    /\ db = [t \in TableNames |-> NoTable]
    /\ catalog = [t \in TableNames |-> NoEntry]
    /\ has_metadata = FALSE
    /\ skip_reflect = FALSE
    /\ checkedOut = 0
    /\ last = Idle
    /\ gen = NoGenerator
    /\ probe = NoProbe
    /\ calls = NoCalls
    /\ server \in SchemaServers
    /\ sql \in {Opened(a, server) : a \in SchemaArguments}

CallInsertIn ==
    \E t \in TableIds :
        \E x \in {insert_in(SchemaRun(sql, server), t)} :
            /\ sql' = x.sql
            /\ server' = x.server
            /\ last' = [Idle EXCEPT !.op = "insert", !.name = t,
                                    !.res = x.sql.res, !.sent = x.sent]
            /\ UNCHANGED <<db, catalog, has_metadata, skip_reflect, checkedOut, gen, probe, calls>>

CallDropTableIn ==
    \E t \in TableIds :
        \E x \in {drop_table_in(SchemaRun(sql, server), t)} :
            /\ sql' = x.sql
            /\ server' = x.server
            /\ last' = [Idle EXCEPT !.op = "drop_table", !.name = t,
                                    !.res = x.sql.res, !.sent = x.sent]
            /\ UNCHANGED <<db, catalog, has_metadata, skip_reflect, checkedOut, gen, probe, calls>>

CallWriteTableIn ==
    \E t \in TableIds, e \in IfExists, c \in BOOLEAN :
        \E x \in {write_table_in(SchemaRun(sql, server), t, e, c)} :
            /\ sql' = x.sql
            /\ server' = x.server
            /\ last' = [Idle EXCEPT !.op = "write_table", !.name = t, !.if_exists = e,
                                    !.create = c, !.res = x.sql.res, !.sent = x.sent]
            /\ UNCHANGED <<db, catalog, has_metadata, skip_reflect, checkedOut, gen, probe, calls>>

SchemaNext ==
    \/ CallInsertIn
    \/ CallDropTableIn
    \/ CallWriteTableIn

SchemaSpec == SchemaInit /\ [][SchemaNext]_vars

----------------------------------------------------------------------------
(* The session with a server that can stop answering: a call is made with  *)
(* the number of the reflection within it that fails, 0 for none.          *)

Faults == 0..3

Failing(n) == [Begin EXCEPT !.reflect_fails = n]

FaultInsert ==
    \E t \in TableNames, data \in Inputs, n \in Faults :
        \E r \in {insert(Failing(n), t, data)} :
            /\ Explored(r)
            /\ Return(r, [Idle EXCEPT !.op = "insert", !.table = t, !.fault = n])

FaultWriteTable ==
    \E t \in TableNames, a \in WriteArguments, e \in IfExists, c \in BOOLEAN, n \in Faults :
        \E r \in {write_table(Failing(n), a[1], t, e, c, a[2])} :
            /\ Explored(r)
            /\ Return(r, [Idle EXCEPT !.op = "write_table", !.table = t,
                                      !.if_exists = e, !.create = c, !.fault = n])

FaultDropTable ==
    \E t \in TableNames, n \in Faults :
        \E r \in {drop_table(Failing(n), t)} :
            /\ Explored(r)
            /\ Return(r, [Idle EXCEPT !.op = "drop_table", !.table = t, !.fault = n])

FaultQuery ==
    \E q \in Statements, c \in BOOLEAN, n \in Faults :
        \E r \in {query(Failing(n), q, c)} :
            /\ Explored(r)
            /\ Return(r, [Idle EXCEPT !.op = "query", !.table = q.table,
                                      !.stmt = q.kind, !.commit = c, !.fault = n])

FaultNext ==
    \/ FaultInsert
    \/ FaultWriteTable
    \/ FaultDropTable
    \/ FaultQuery
    \/ Collect

FaultSpec == Init /\ [][FaultNext]_vars

----------------------------------------------------------------------------
(* Properties.                                                             *)

Methods == {"insert", "write_table", "drop_table", "query", "import_table"}

(* The run of a call that starts where the run r ended.                    *)
Then(r) == [r EXCEPT !.res = "ok", !.stmts = <<>>, !.via = <<>>, !.conns = 0, !.out = NoValue]

(* The rows of an input as insert sends them, in the column order of cols, *)
(* and as a table with these columns holds them.                           *)
SentRows(cols, data) ==
    LET records == IF data.py = "DataFrame" THEN df2dict(NotNullOrNone(data)) ELSE data
    IN  [i \in 1..Len(records.rows) |-> StoredRow(cols, records.cols, records.rows[i])]

BatchRows(cols, data) == HeldRows(cols, SentRows(cols, data))

(* An input with a first row whose rows all fit the columns write_table    *)
(* infers from it.                                                         *)
Storable(data, char_limit) ==
    LET df == IF data.py = "list" THEN dict2df(data) ELSE data
    IN  /\ df.rows # <<>>
        /\ LET cols == col_query(df, char_limit)
               rows == SentRows(cols, df)
           IN  \A i \in DOMAIN rows : RowAccepted(cols, rows[i])

(* The step taken is a call that ran as the run r.                         *)
Step(r) ==
    /\ db' = r.db
    /\ catalog' = r.catalog
    /\ has_metadata' = r.has_metadata
    /\ skip_reflect' = r.skip_reflect
    /\ checkedOut' = r.checkedOut
    /\ last'.res = r.res
    /\ last'.stmts = r.stmts

(* C1: write_table with if_exists='fail' on a table that exists ends in    *)
(* the table-exists error, ValueError("Table ... already exists."), and    *)
(* leaves the database and the catalog as they were.                       *)
C1_FailRaisesTableExists ==
    [][(/\ last'.op = "write_table"
        /\ last'.if_exists = "fail"
        /\ db[last'.table].exists) =>
           (last'.res = "ValueError" /\ db' = db /\ catalog' = catalog)]_vars

(* The run of a call that starts in the state the step taken ends in.      *)
After == [db |-> db', catalog |-> catalog', has_metadata |-> has_metadata',
          skip_reflect |-> skip_reflect', checkedOut |-> checkedOut', reflect_fails |-> 0,
          res |-> "ok", stmts |-> <<>>, via |-> <<>>, conns |-> 0, out |-> NoValue]

(* C2: where t exists and is in the catalog (so that drop_table(t)         *)
(* returns), drop_table(t) and then write_table(data, t, if_exists='fail') *)
(* succeeds and leaves t with the rows of data; a write_table(...,         *)
(* if_exists='fail') that follows one that succeeded fails and writes      *)
(* nothing (which error it fails with is C1's matter).                     *)
C2_DropThenWriteOnce ==
    [][(/\ last'.op = "write_table"
        /\ last'.if_exists = "fail") =>
           /\ \A data \in Lists :
                 (/\ last.op = "drop_table"
                  /\ last.table = last'.table
                  /\ last.res = "ok"
                  /\ ~last'.create
                  /\ Storable(data, DefaultCharLimit)
                  /\ Step(write_table(Begin, data, last.table, "fail", FALSE,
                                      DefaultCharLimit))) =>
                     /\ last'.res = "ok"
                     /\ db'[last.table].exists
                     /\ db'[last.table].rows =
                            BatchRows(db'[last.table].cols, dict2df(data))
           /\ last'.res = "ok" =>
                  \A data \in WriteInputs, c \in BOOLEAN :
                      LET again == write_table(After, data, last'.table, "fail", c,
                                               DefaultCharLimit)
                      IN  again.res # "ok" /\ again.db = db']_vars

(* C3: on a table that exists, write_table(if_exists='replace') ends with  *)
(* the same database, the same catalog and the same outcome as drop_table  *)
(* followed by write_table(if_exists='fail') from the same state.          *)
C3_ReplaceIsDropThenWrite ==
    [][(/\ last'.op = "write_table"
        /\ last'.if_exists = "replace"
        /\ db[last'.table].exists) =>
           \A data \in Lists \cup EmptyFrames :
               Step(write_table(Begin, data, last'.table, "replace", last'.create,
                                DefaultCharLimit)) =>
                   LET dropped == drop_table(Begin, last'.table)
                       written == IF dropped.res = "ok"
                                  THEN write_table(Then(dropped), data, last'.table, "fail",
                                                   last'.create, DefaultCharLimit)
                                  ELSE dropped
                   IN  /\ db' = written.db
                       /\ catalog' = written.catalog
                       /\ (last'.res = "ok") = (written.res = "ok")]_vars

(* C4: on a session that reflects, drop_table(t) raises the not-found      *)
(* error and sends no statement when t is not in the catalog; when t is in *)
(* the catalog it sends DROP TABLE and on return the catalog has no entry  *)
(* for t, so that a drop_table(t) right after one that returned raises the *)
(* not-found error and sends nothing.                                      *)
C4_DropForgetsTable ==
    [][(last'.op = "drop_table" /\ ~skip_reflect) =>
           /\ ~catalog[last'.table].exists =>
                  (last'.res = "KeyError" /\ last'.stmts = <<>>)
           /\ catalog[last'.table].exists =>
                  /\ last'.stmts # <<>> /\ last'.stmts[1] = "DROP"
                  /\ last'.res = "ok" => ~catalog'[last'.table].exists
           /\ (last.op = "drop_table" /\ last.table = last'.table /\ last.res = "ok") =>
                  (last'.res = "KeyError" /\ last'.stmts = <<>>)]_vars

(* C5: when a method has returned normally on a session that reflects, the *)
(* tables of the catalog are the tables of the database.                   *)
C5_CatalogIsDatabase ==
    (last.op \in Methods /\ last.res = "ok" /\ ~skip_reflect) =>
        {t \in TableNames : catalog[t].exists} = {t \in TableNames : db[t].exists}

(* C6: insert into a table that is not in the catalog the session has      *)
(* raises the not-found error before it takes a connection or sends a      *)
(* statement, and the database is as it was.                               *)
C6_InsertUnknownTable ==
    \A t \in TableNames, data \in Inputs :
        (has_metadata /\ ~catalog[t].exists) =>
            LET r == insert(Begin, t, data)
            IN  /\ r.res = "KeyError"
                /\ r.conns = 0
                /\ r.stmts = <<>>
                /\ r.checkedOut = checkedOut
                /\ r.db = db

C6_Witness ==
    /\ last.op = "insert"
    /\ last.res = "KeyError"
    /\ has_metadata
    /\ ~catalog[last.table].exists

(* C7: insert is all or nothing: when the database rejects a row of the    *)
(* batch the call raises and the table has the rows it had; when it        *)
(* rejects none the call returns and the rows of the batch follow the rows *)
(* the table had.                                                          *)
C7_InsertAllOrNothing ==
    \A t \in TableNames, data \in Inputs :
        (catalog[t].exists /\ db[t].exists) =>
            LET r == insert(Begin, t, data)
                sent == SentRows(db[t].cols, data)
                batch == BatchRows(db[t].cols, data)
                had == db[t].rows
            IN  IF \E i \in DOMAIN sent : ~RowAccepted(db[t].cols, sent[i])
                THEN r.res # "ok" /\ r.db = db
                ELSE /\ r.res = "ok"
                     /\ Len(r.db[t].rows) >= Len(had) + Len(batch)
                     /\ SubSeq(r.db[t].rows, 1, Len(had) + Len(batch)) = had \o batch
                     /\ batch # <<>> => r.db[t].rows = had \o batch

C7_Witness ==
    /\ last.op = "insert"
    /\ last.res = "DatabaseError"
    /\ last.stmts = <<"INSERT">>
    /\ db[last.table].exists
    /\ db[last.table].rows # <<>>

(* C8: when a method has ended, normally or with an exception, no          *)
(* connection is out of the pool.                                          *)
C8_NoConnectionLeft ==
    last.op \in Methods => checkedOut = 0

(* C9: _sql_dtypes gives the boolean type for True and for False.          *)
C9_BoolIsBoolean ==
    (probe.fn = "db_pandas._sql_dtypes" /\ probe.value \in {"True", "False"}) =>
        probe.result = Boolean

(* The type the documented rules give a value of a built-in class.         *)
Documented(cls, char_limit) ==
    CASE cls = "bool" -> Boolean
      [] cls = "int" -> BigInteger
      [] cls = "float" -> Float
      [] cls = "str" -> String(char_limit)
      [] cls = "date" -> Date
      [] cls = "datetime" -> DateTime
      [] OTHER -> Text

(* C10: for a value that is an int, a float, a str, a date, a datetime,    *)
(* None or of another class, _sql_dtypes gives big-integer, floating,      *)
(* text of length char_limit (255 when it is not given), date, timestamp   *)
(* and unbounded text.                                                     *)
C10_DocumentedTypes ==
    (/\ probe.fn = "db_pandas._sql_dtypes"
     /\ TypeOf(probe.value) \in {"int", "float", "str", "date", "datetime", "NoneType", "bytes"}) =>
        probe.result = Documented(TypeOf(probe.value),
                                  IF probe.given THEN probe.char_limit ELSE 255)

(* A column of an input whose values are all of one class.                 *)
OneClass(data, j) ==
    \A i \in DOMAIN data.rows : TypeOf(data.rows[i][j]) = TypeOf(data.rows[1][j])

(* C11: a table that write_table creates has the columns of the input, in  *)
(* the order of the input, each with the type the documented rules give    *)
(* the values of that column and the char_limit of the call: (id           *)
(* big-integer, name text(10), active boolean) for the input of three      *)
(* columns and char_limit=10.                                              *)
C11_CreatedColumns ==
    [][(/\ last'.op = "write_table"
        /\ last'.res = "ok"
        /\ \E k \in DOMAIN last'.stmts : last'.stmts[k] = "CREATE") =>
           \A data \in WriteInputs, n \in CharLimits :
               (/\ data.rows # <<>>
                /\ \A j \in DOMAIN data.cols : OneClass(data, j)
                /\ Step(write_table(Begin, data, last'.table, last'.if_exists,
                                    last'.create, n))) =>
                   db'[last'.table].cols =
                       [j \in 1..Len(data.cols) |->
                           ColumnDef(data.cols[j],
                                     Documented(TypeOf(data.rows[1][j]), n))]]_vars

(* C12: on a session that reflects, where t is neither in the database nor *)
(* in the catalog, write_table(data, t, if_exists='fail') for data with at *)
(* least one row (each column of one class) returns, and import_table(t)   *)
(* after it returns the columns of data in their order and the rows of     *)
(* data in their order with their values: as a list of dictionaries the    *)
(* rows of the list, as a DataFrame the rows of its DataFrame.             *)
C12_WriteThenRead ==
    [][(/\ last'.op = "write_table"
        /\ last'.if_exists = "fail"
        /\ ~last'.create
        /\ ~skip_reflect
        /\ ~db[last'.table].exists
        /\ ~catalog[last'.table].exists) =>
           \A data \in WriteInputs, n \in CharLimits :
               (/\ data.rows # <<>>
                /\ \A j \in DOMAIN data.cols : OneClass(data, j)
                /\ Step(write_table(Begin, data, last'.table, "fail", FALSE, n))) =>
                   /\ last'.res = "ok"
                   /\ \A o \in {"dict", "df"} :
                          LET read == import_table(After, last'.table, o)
                              given == IF o = "df" THEN dict2df(data) ELSE data
                          IN  /\ read.res = "ok"
                              /\ read.out.cols = given.cols
                              /\ read.out.rows = given.rows]_vars

C14_CommitBeforeStatement ==
    last.op = "query" =>
        IF last.commit
        THEN /\ Len(last.stmts) >= 2
             /\ last.stmts[1] = "COMMIT"
             /\ last.stmts[2] = last.stmt
             /\ last.via[2] = last.via[1]
             /\ \A k \in DOMAIN last.stmts : last.stmts[k] = "COMMIT" => k = 1
        ELSE /\ last.stmts # <<>>
             /\ last.stmts[1] = last.stmt
             /\ \A k \in DOMAIN last.stmts : last.stmts[k] # "COMMIT"

C14_Witness ==
    /\ last.op = "query"
    /\ last.commit
    /\ last.res = "ok"
    /\ last.stmt = "DROP"
    /\ last.stmts[1] = "COMMIT"

(* C20: on a session with skip_reflect set, import_table, insert,          *)
(* drop_table and write_table fail for want of a catalog (AttributeError:  *)
(* self.metadata is missing) and leave the database as it was, whatever    *)
(* was reflected before skip_reflect was set; write_table may fail on its  *)
(* arguments first (C1).  query runs the statement as the database does.   *)
C20_SkipReflectDisablesCatalog ==
    [][skip_reflect =>
           /\ last'.op \in {"import_table", "insert", "drop_table", "write_table"} =>
                  /\ db' = db
                  /\ \/ last'.res = "AttributeError"
                     \/ last'.op = "write_table" /\ last'.res \in {"TypeError", "IndexError"}
           /\ last'.op = "query" =>
                  LET direct == conn_execute(Begin, [kind |-> last'.stmt, table |-> last'.table])
                  IN  last'.res = direct.res /\ db' = direct.db]_vars

Contains(str, piece) == \E i \in DOMAIN str : str[i] = piece

(* The arguments name a connection: a dsn, or db, host and port.           *)
Located(s) == s.dsn # None \/ (s.db # None /\ s.host # None /\ s.port # None)

(* C16: the constructor raises the configuration error, ValueError, and    *)
(* opens no connection when neither dsn nor all of db, host and port are   *)
(* given, and when db_sys is not a supported backend (ad left aside:       *)
(* C18).                                                                   *)
C16_ConfigurationError ==
    (sql.called /\ ~sql.ad /\ (~Located(sql) \/ sql.db_sys \notin Supported)) =>
        (sql.res = "ValueError" /\ sql.conns = 0)

(* C17: the engine url of a session ends with '?driver=' and the driver    *)
(* name, '+' for each space, when db_sys is mssql and a driver is given,   *)
(* in every mode, and has no '?driver=' otherwise.                         *)
C17_DriverOverride ==
    (sql.called /\ sql.res = "ok") =>
        IF sql.db_sys = "mssql" /\ sql.driver # None
        THEN LET tail == <<"?driver=">> \o replace(sql.driver)
                 n == Len(sql.engine_url)
             IN  /\ n > Len(tail)
                 /\ SubSeq(sql.engine_url, n - Len(tail) + 1, n) = tail
                 /\ ~Contains(sql.engine_url, " ")
        ELSE ~Contains(sql.engine_url, "?driver=")

(* C18: with ad=True and a domain, without trusted, the constructor does   *)
(* not fail on the credentials and the username of the session is the      *)
(* domain, a backslash and the username given as uid or typed at the       *)
(* prompt.                                                                 *)
C18_DomainQualifiedUser ==
    (sql.called /\ sql.ad /\ sql.domain # None /\ ~sql.trusted /\ Located(sql)
       /\ sql.db_sys \in Supported) =>
        /\ sql.res = "ok"
        /\ sql.uid = sql.domain \o <<"\\">> \o
                         (IF sql.arg_uid # None THEN sql.arg_uid ELSE <<"typed_user">>)

(* C19: with trusted=True nothing is asked for and the engine url has no   *)
(* 'user:password@' part, whatever the backend and the mode; for sqlite    *)
(* the engine url is 'sqlite:///' and the dsn, or the host when no dsn is  *)
(* given, in every mode.                                                   *)
C19_TrustedEmbedsNoCredentials ==
    (sql.called /\ sql.res = "ok") =>
        /\ sql.trusted =>
               /\ sql.prompts = <<>>
               /\ ~Contains(sql.engine_url, "@")
               /\ sql.arg_uid # None => ~Contains(sql.engine_url, sql.arg_uid[1])
               /\ sql.arg_pwd # None => ~Contains(sql.engine_url, sql.arg_pwd[1])
        /\ sql.db_sys = "sqlite" =>
               sql.engine_url =
                   <<"sqlite:///">> \o (IF sql.dsn # None THEN sql.dsn ELSE sql.host)

(* The database the session is on after a call of change_db (the one       *)
(* asked for) or of change_schema (the one it was on).                     *)
Selected ==
    IF last'.op = "change_db" THEN sql'.db
    ELSE IF sql.engine # None THEN Database(sql.engine) ELSE None

(* C21: change_db and change_schema (skip_reflect not set) return, keep    *)
(* the username and the password, open a new pool on the database and the  *)
(* schema selected, and leave a catalog that is exactly the tables of that *)
(* schema of that database: no entry of another database or schema stays.  *)
C21_SwitchReplacesCatalog ==
    [][(last'.op \in {"change_db", "change_schema"} /\ last'.skip # "True") =>
           /\ sql'.res = "ok"
           /\ sql'.uid = sql.uid /\ sql'.pwd = sql.pwd
           /\ sql'.pools = sql.pools + 1
           /\ sql'.engine # None /\ Database(sql'.engine) = Selected
           /\ sql'.has_metadata
           /\ \A e \in sql'.metadata :
                  /\ e.database = Selected
                  /\ e.schema = sql'.schema
                  /\ e.table \in server[Selected, sql'.schema]
           /\ \A t \in server[Selected, sql'.schema] :
                  \E e \in sql'.metadata : e.table = t /\ e.key = TableKey(sql'.schema, t)]_vars

(* The statement a comes before the statement b in the statements sent.    *)
Before(stmts, a, b) ==
    \E i, k \in DOMAIN stmts : i < k /\ stmts[i] = a /\ stmts[k] = b

(* C22: on a session that reflects, write_table of data with at least one  *)
(* row (each column of one class) on a table the database does not have    *)
(* returns; the table then exists and is in the catalog; with create=True  *)
(* it has no rows, otherwise CREATE TABLE was sent before the INSERT and   *)
(* the table has the rows of data.                                         *)
C22_WriteAbsentTable ==
    [][(/\ last'.op = "write_table"
        /\ ~skip_reflect
        /\ ~db[last'.table].exists) =>
           \A a \in WriteArguments :
               (/\ a[1].rows # <<>>
                /\ \A j \in DOMAIN a[1].cols : OneClass(a[1], j)
                /\ Step(write_table(Begin, a[1], last'.table, last'.if_exists,
                                    last'.create, a[2]))) =>
                   /\ last'.res = "ok"
                   /\ db'[last'.table].exists
                   /\ catalog'[last'.table].exists
                   /\ IF last'.create THEN db'[last'.table].rows = <<>>
                      ELSE /\ Before(last'.stmts, "CREATE", "INSERT")
                           /\ db'[last'.table].rows =
                                  BatchRows(db'[last'.table].cols, dict2df(a[1]))]_vars

(* C23: on a session that reflects, write_table(if_exists='append') on a   *)
(* table the database has sends neither CREATE nor DROP, leaves the        *)
(* columns of the table and the rows it had, and either returns with the   *)
(* rows of data added after them and nothing else, or raises the           *)
(* database's insert error with the table as it was.                       *)
C23_AppendOnlyInserts ==
    [][(/\ last'.op = "write_table"
        /\ last'.if_exists = "append"
        /\ ~skip_reflect
        /\ db[last'.table].exists) =>
           /\ \A k \in DOMAIN last'.stmts : last'.stmts[k] \notin {"CREATE", "DROP"}
           /\ db'[last'.table].exists
           /\ db'[last'.table].cols = db[last'.table].cols
           /\ last'.res \in {"ok", "DatabaseError"}
           /\ last'.res # "ok" => db' = db
           /\ \A a \in WriteArguments :
                  (/\ last'.res = "ok"
                   /\ Step(write_table(Begin, a[1], last'.table, "append", last'.create,
                                       a[2]))) =>
                      db'[last'.table].rows =
                          db[last'.table].rows \o
                              BatchRows(db[last'.table].cols,
                                        IF a[1].py = "list" THEN dict2df(a[1]) ELSE a[1])]_vars

(* Both calls have run has_table and have ended.                           *)
RaceOver == \A c \in Callers : calls.of[c].checked /\ calls.of[c].line = 0

MutationFollows(r, k) ==
    \E m \in DOMAIN r.stmts : m > k /\ r.stmts[m] \in {"DROP", "CREATE", "INSERT"}

(* The call that ran as clean with every reflection answering ends, when   *)
(* its reflection number n fails, as faulty: with the failure raised to    *)
(* the caller, after the statements that came before it, and with the      *)
(* database as those statements left it -- as the whole call leaves it,    *)
(* or, when the failing reflection is the one of the drop_table inside a   *)
(* replacing write_table, with the table t dropped.                        *)
Stands(n, clean, faulty, t) ==
    Reflections(clean) >= n =>
        LET k == Len(faulty.stmts)
        IN  /\ faulty.res = "OperationalError"
            /\ Reflections(faulty) = n
            /\ k <= Len(clean.stmts)
            /\ faulty.stmts = SubSeq(clean.stmts, 1, k)
            /\ faulty.stmts[k] = "REFLECT"
            /\ faulty.db = IF MutationFollows(clean, k)
                           THEN [db EXCEPT ![t] = NoTable]
                           ELSE clean.db

(* C25: when the reflection of a catalog refresh in insert, drop_table,    *)
(* write_table or query fails, the statements before it having committed,  *)
(* the call raises the failure to its caller and the database keeps what   *)
(* was committed: the rows inserted, the table created, the table dropped. *)
C25_RefreshFailureStands ==
    \A t \in TableNames, n \in Faults \ {0} :
        /\ \A data \in Inputs :
               Stands(n, insert(Begin, t, data), insert(Failing(n), t, data), t)
        /\ Stands(n, drop_table(Begin, t), drop_table(Failing(n), t), t)
        /\ \A q \in Statements, c \in BOOLEAN :
               Stands(n, query(Begin, q, c), query(Failing(n), q, c), q.table)
        /\ \A a \in WriteArguments, e \in IfExists, c \in BOOLEAN :
               Stands(n, write_table(Begin, a[1], t, e, c, a[2]),
                         write_table(Failing(n), a[1], t, e, c, a[2]), t)

C25_Witness ==
    /\ last.op = "insert"
    /\ last.fault = 1
    /\ last.res = "OperationalError"
    /\ last.stmts = <<"INSERT", "REFLECT">>
    /\ db[last.table].rows # <<>>

(* C26: the columns of a table that write_table creates are typed from the *)
(* first row of the input alone: an input with the same first row (and the *)
(* same columns and char_limit) creates the table with the same columns,   *)
(* whatever its later rows hold, and a column whose first value is None is *)
(* unbounded text.                                                         *)
C26_TypedFromFirstRow ==
    [][(/\ last'.op = "write_table"
        /\ last'.res = "ok"
        /\ \E k \in DOMAIN last'.stmts : last'.stmts[k] = "CREATE") =>
           \A a \in WriteArguments :
               (/\ a[1].rows # <<>>
                /\ Step(write_table(Begin, a[1], last'.table, last'.if_exists,
                                    last'.create, a[2]))) =>
                   /\ \A j \in DOMAIN a[1].cols :
                          a[1].rows[1][j] = "None" => db'[last'.table].cols[j].type = Text
                   /\ \A b \in WriteArguments :
                          (/\ b[2] = a[2]
                           /\ b[1].cols = a[1].cols
                           /\ b[1].rows # <<>>
                           /\ b[1].rows[1] = a[1].rows[1]) =>
                              LET r == write_table(Begin, b[1], last'.table,
                                                   last'.if_exists, last'.create, b[2])
                              IN  r.db[last'.table].exists =>
                                      r.db[last'.table].cols = db'[last'.table].cols]_vars

(* C28: a write_table with if_exists='replace' on a table that exists,     *)
(* when it ends in an error after its DROP TABLE has been sent, leaves the *)
(* table in the database as it was, with the columns and the rows it had.  *)
C28_ReplaceKeepsTableOnError ==
    [][(/\ last'.op = "write_table"
        /\ last'.if_exists = "replace"
        /\ db[last'.table].exists
        /\ last'.res # "ok"
        /\ \E k \in DOMAIN last'.stmts : last'.stmts[k] = "DROP") =>
           db'[last'.table] = db[last'.table]]_vars

(* C29: change_db and change_schema rebuild the connection string the way  *)
(* the session was made -- from the dsn for a session made from a dsn,     *)
(* from host, port and db for one made from those -- so that it holds no   *)
(* field that was not supplied (no 'None'), and a session made with        *)
(* skip_reflect=True still skips reflection after a change_db or           *)
(* change_schema that is given no skip_reflect argument.                   *)
C29_SwitchKeepsConfiguration ==
    [][last'.op \in {"change_db", "change_schema"} =>
           /\ sql'.engine_url = IF sql.dsn # None THEN _dsn_url(sql').engine_url
                                ELSE _var_url(sql').engine_url
           /\ ~Contains(sql'.engine_url, "None")
           /\ (sql.skip_reflect /\ last'.skip = "omitted") => sql'.skip_reflect]_vars

(* C30: a lazy_query gives its connection back and refreshes the catalog   *)
(* (on a session that reflects) in each of three cases: when the consumer  *)
(* has read every record and the sequence ends, when the statement has no  *)
(* column metadata, where the sequence ends at once and is empty, and when *)
(* the consumer stops after some of the records and drops the sequence.    *)
C30_LazyQueryReleasesAndRefreshes ==
    [][/\ (/\ last'.op = "next"
           /\ gen.state # "done"
           /\ gen'.state = "done"
           /\ gen'.res = "StopIteration") =>
              /\ checkedOut' = checkedOut - (IF gen.state = "running" THEN 1 ELSE 0)
              /\ ~skip_reflect => \E k \in DOMAIN last'.stmts : last'.stmts[k] = "REFLECT"
              /\ gen.stmt # "SELECT" => gen'.yielded = <<>>
       /\ last'.op = "discard" =>
              /\ checkedOut' = checkedOut - 1
              /\ ~skip_reflect => \E k \in DOMAIN last'.stmts : last'.stmts[k] = "REFLECT"]_vars

(* C27: on a session with a schema, every name that insert, drop_table and *)
(* write_table (append, replace, or on an absent table) look up, check,    *)
(* drop, create or insert into is the schema, a dot and the table name the *)
(* caller gave: the schema is put before the name once, never twice.       *)
C27_QualifiedOnce ==
    [][(last'.op \in {"insert", "drop_table", "write_table"} /\ sql.schema # None) =>
           \A k \in DOMAIN last'.sent :
               last'.sent[k].name = sql.schema \o <<".">> \o last'.name]_vars

====
